---- MODULE Spec2Model ----
(***************************************************************************)
(* A model of the prediction_market_data scripts: the Dune fetcher's       *)
(* execute_sql_query poll loop, the Kalshi fetcher's main loop, the        *)
(* date alignment of the comparison script (get_matching_dates) and the    *)
(* Pearson computation of the F1 script (calculate_correlation).           *)
(* Each script is a run of its own: every specification below starts one   *)
(* script and leaves the state of the others idle.                         *)
(***************************************************************************)
EXTENDS Integers, Sequences, FiniteSets

VARIABLES
    \* ---- dune_data_fetcher.py, execute_sql_query ----
    dpc,          \* position in execute_sql_query
    i,            \* the loop variable of "for i in range(60)"
    execPosts,    \* POST /query/execute requests sent
    execCode,     \* the status code of the execute response (0: none yet)
    sleeps,       \* time.sleep(2) calls made
    slept,        \* the seconds slept so far
    statusReqs,   \* GET /execution/<id>/status requests sent
    resultsReqs,  \* GET /execution/<id>/results requests sent
    seenStates,   \* the states the status polls have observed so far
    lastState,    \* the state observed by the latest status poll
    resultsBody,  \* the JSON body the results endpoint answered with
    dprinted,     \* what execute_sql_query printed about its outcome
    dret,         \* the value execute_sql_query returned
    DUNE_API_KEY, \* the value of os.getenv("DUNE_API_KEY") at module level
    exit_status,  \* the status the script exited with (NoExit: it has not)
    fret,         \* the value fetch_polymarket_daily_volume returned
    cache_writes, \* the number of times dune_polymarket_volume.json was written
    cache_rows,   \* the number of rows written to it (NoRows: none written)
    dreport,      \* what the Dune main reported
    \* ---- f1_correlation.py, calculate_correlation ----
    cpc,          \* "input": the series are loaded; "done": the call returned
    prices,       \* the first argument of calculate_correlation
    volumes,      \* the second argument of calculate_correlation
    correlation,  \* the value calculate_correlation returned
    swapped_corr,   \* the value of calculate_correlation(volumes, prices)
    superbowl_corr, \* the value of the inline computation of superbowl_comparison.py
    scatter_corr,   \* the value of the inline computation of create_scatter_comparison
    \* ---- comparison_kalshi_polymarket.py, get_matching_dates ----
    mpc,              \* "input", "matched" (the call returned), "compared"
    kalshi_data,      \* the first argument: a list of daily records
    polymarket_data,  \* the second argument: a list of daily records
    common_dates,     \* the first component of the returned tuple
    kalshi_dates,     \* the second component: the dict date -> record
    polymarket_dates, \* the third component: the dict date -> record
    variant,          \* how a second call's arguments were derived
    common_dates_2,   \* the common dates the second call returned
    \* ---- kalshi_data_fetcher.py, main ----
    kpc,          \* position in main: "fetch", "store", "save", "done"
    kidx,         \* the position of the loop in MARKETS.items()
    kreqs,        \* per market, the candlesticks requests sent
    kcode,        \* the status code of the latest response (0: none yet)
    kprinted,     \* the status code fetch_candlesticks last printed as an error
    candlesticks, \* the value the latest fetch_candlesticks call returned
    output,       \* the market entries of main's output dict
    kwrites,      \* the number of times the cache file was written
    kfile,        \* the market entries of the cache file (NoFile: not written)
    kfetched,     \* per market attempted: the status code and the list returned
    \* ---- comparison_kalshi_polymarket.py, main ----
    xpc,          \* position in main
    caches_exist, \* whether the two cache files exist
    kalshi,       \* the "presidential" entry of kalshi_data.json
    polymarket,   \* the "presidential_2024_trump" entry of daily_price_volume.json
    figs,         \* what each create function returned or raised
    written,      \* the chart files written
    xerror,       \* the error main ended with
    \* ---- polymarket_dashboard.py, main ----
    bpc,              \* position in main
    data_file_exists, \* whether DATA_FILE exists
    data_file,        \* the content of DATA_FILE
    markets,          \* the list get_markets returned
    load_calls,       \* calls of load_data
    dashboard_calls,  \* calls of create_dashboard
    image_written,    \* whether election_dashboard.png was written
    breported         \* the error main reported

duneVars == <<dpc, i, execPosts, execCode, sleeps, slept, statusReqs, resultsReqs, seenStates,
              lastState, resultsBody, dprinted, dret>>

envVars == <<DUNE_API_KEY, exit_status>>

duneMainVars == <<fret, cache_writes, cache_rows, dreport>>

corrVars == <<cpc, prices, volumes, correlation, swapped_corr, superbowl_corr,
              scatter_corr>>

datesVars == <<mpc, kalshi_data, polymarket_data, common_dates, kalshi_dates,
               polymarket_dates, variant, common_dates_2>>

kalshiVars == <<kpc, kidx, kreqs, kcode, kprinted, candlesticks, output, kwrites,
                kfile, kfetched>>

comparisonVars == <<xpc, caches_exist, kalshi, polymarket, figs, written, xerror>>

dashboardVars == <<bpc, data_file_exists, data_file, markets, load_calls, dashboard_calls,
                   image_written, breported>>

vars == <<duneVars, envVars, duneMainVars, corrVars, datesVars, kalshiVars, comparisonVars,
    dashboardVars>>

\* What a script leaves alone: the state of the other scripts.
notDune == <<envVars, duneMainVars, corrVars, datesVars, kalshiVars, comparisonVars,
    dashboardVars>>
notCorr == <<duneVars, envVars, duneMainVars, datesVars, kalshiVars, comparisonVars,
    dashboardVars>>
notDates == <<duneVars, envVars, duneMainVars, corrVars, kalshiVars, comparisonVars,
    dashboardVars>>
notKalshi == <<duneVars, envVars, duneMainVars, corrVars, datesVars, comparisonVars,
    dashboardVars>>
notComparison == <<duneVars, envVars, duneMainVars, corrVars, datesVars, kalshiVars, dashboardVars>>
notDashboard == <<duneVars, envVars, duneMainVars, corrVars, datesVars, kalshiVars, comparisonVars>>

(***************************************************************************)
(* dune_data_fetcher.py                                                    *)
(***************************************************************************)

\* range(60): the number of status polls the loop may make.
PollLimit == 60

\* time.sleep(2): the seconds of one sleep.
SleepSeconds == 2

\* HTTP status codes the execute endpoint may answer with.
StatusCodes == {200, 201, 402, 500}

\* The "state" field of a status response; NoState is a response without it
\* (status.get("state") is None).
NoState == "None"
QueryStates == {"QUERY_STATE_PENDING", "QUERY_STATE_EXECUTING",
                "QUERY_STATE_COMPLETED", "QUERY_STATE_FAILED",
                "QUERY_STATE_CANCELLED", NoState}

\* JSON bodies of the results endpoint: without a "result" key, with a
\* "result" holding no rows, with a "result" holding rows.
NoBody == [has_result |-> FALSE, rows |-> 0]
ResultsBodies == {[has_result |-> FALSE, rows |-> 0],
                  [has_result |-> TRUE, rows |-> 0],
                  [has_result |-> TRUE, rows |-> 2]}

\* Return values of execute_sql_query: None, or the results JSON.
RetNone == [isNone |-> TRUE, body |-> NoBody]
RetJson(b) == [isNone |-> FALSE, body |-> b]
NotReturned == [isNone |-> FALSE, body |-> [has_result |-> FALSE, rows |-> -1]]

\* A variant of ExecuteOk: every 2xx code counts as a success.
ExecuteOkLax(code) == code < 300

\* if response.status_code != 200: ... return None
ExecuteOk(code) == code = 200

\* No rows: the cache file has not been written.
NoRows == -1

\* Return values of fetch_polymarket_daily_volume: None, or the list of rows
\* (its length stands for it); NotFetched before it returns.
FetchNone == [isNone |-> TRUE, rows |-> 0]
FetchRows(n) == [isNone |-> FALSE, rows |-> n]
NotFetched == [isNone |-> FALSE, rows |-> NoRows]

\* A variant of HasResult: a result without rows does not count.
HasResultRows(results) ==
    ~results.isNone /\ results.body.has_result /\ results.body.rows > 0

\* if results and "result" in results
HasResult(results) == ~results.isNone /\ results.body.has_result

\* if data: a list is true when it is not empty, None is false.
DataTruthy(d) == ~d.isNone /\ d.rows > 0

\* Variants of LoopContinues: one iteration more, one iteration less.
LoopContinuesOneMore(k) == k <= PollLimit
LoopContinuesOneLess(k) == k < PollLimit - 1

\* for i in range(60): the loop body runs while i < 60.
LoopContinues(k) == k < PollLimit

\* A variant of IsCompleted: every state that is not a running one.
IsCompletedNotRunning(state) ==
    state \notin {"QUERY_STATE_PENDING", "QUERY_STATE_EXECUTING", NoState}

\* if state == "QUERY_STATE_COMPLETED"
IsCompleted(state) == state = "QUERY_STATE_COMPLETED"

\* A variant of IsFailed: a cancelled query is not told from a running one.
IsFailedOnly(state) == state = "QUERY_STATE_FAILED"

\* A variant of IsFailed: a response without a state ends the loop too.
IsFailedOrNoState(state) ==
    state \in {"QUERY_STATE_FAILED", "QUERY_STATE_CANCELLED", NoState}

\* elif state in ["QUERY_STATE_FAILED", "QUERY_STATE_CANCELLED"]
IsFailed(state) == state \in {"QUERY_STATE_FAILED", "QUERY_STATE_CANCELLED"}

\* os.getenv returns None for a variable that is not set.
Unset == "<unset>"

\* The values DUNE_API_KEY can have after load_dotenv(): not set, set to the
\* empty string, or set to a key.
EnvValues == {Unset, "", "dune-key"}

NoExit == -1

\* A variant of KeyMissing: only a variable that is not set counts.
KeyMissingUnsetOnly(key) == key = Unset

\* if not DUNE_API_KEY: None and the empty string are both false.
KeyMissing(key) == key = Unset \/ key = ""

\* The module is loaded with a key, and main has called execute_sql_query.
InitDune ==
    /\ DUNE_API_KEY = "dune-key"
    /\ exit_status = NoExit
    /\ dpc = "start"
    /\ i = 0
    /\ execPosts = 0
    /\ execCode = 0
    /\ sleeps = 0
    /\ slept = 0
    /\ fret = NotFetched
    /\ cache_writes = 0
    /\ cache_rows = NoRows
    /\ dreport = "none"
    /\ statusReqs = 0
    /\ resultsReqs = 0
    /\ seenStates = {}
    /\ lastState = NoState
    /\ resultsBody = NoBody
    /\ dprinted = "nothing"
    /\ dret = NotReturned

IdleDune ==
    /\ DUNE_API_KEY = Unset
    /\ exit_status = NoExit
    /\ dpc = "idle"
    /\ i = 0
    /\ execPosts = 0
    /\ execCode = 0
    /\ sleeps = 0
    /\ slept = 0
    /\ fret = NotFetched
    /\ cache_writes = 0
    /\ cache_rows = NoRows
    /\ dreport = "none"
    /\ statusReqs = 0
    /\ resultsReqs = 0
    /\ seenStates = {}
    /\ lastState = NoState
    /\ resultsBody = NoBody
    /\ dprinted = "nothing"
    /\ dret = NotReturned

\* response = requests.post(url, ...); the status code check; range(60) begins.
ExecutePost ==
    /\ dpc = "start"
    /\ \E code \in StatusCodes :
        /\ execPosts' = execPosts + 1
        /\ execCode' = code
        /\ IF ExecuteOk(code)
             THEN /\ dpc' = "loop"
                  /\ i' = 0
                  /\ UNCHANGED <<dprinted, dret>>
             ELSE /\ dpc' = "done"
                  /\ dprinted' = "Execute failed"
                  /\ dret' = RetNone
                  /\ UNCHANGED i
    /\ UNCHANGED <<sleeps, slept, statusReqs, resultsReqs, seenStates, lastState,
                   resultsBody>>
    /\ UNCHANGED notDune

\* The head of an iteration: time.sleep(2).
Sleep ==
    /\ dpc = "loop"
    /\ LoopContinues(i)
    /\ sleeps' = sleeps + 1
    /\ slept' = slept + SleepSeconds
    /\ dpc' = "status"
    /\ UNCHANGED <<i, execPosts, execCode, statusReqs, resultsReqs, seenStates,
                   lastState, resultsBody, dprinted, dret>>
    /\ UNCHANGED notDune

\* status_resp = requests.get(status_url); state = status.get("state"); the
\* branch on the state.
StatusPoll ==
    /\ dpc = "status"
    /\ \E state \in QueryStates :
        /\ statusReqs' = statusReqs + 1
        /\ lastState' = state
        /\ seenStates' = seenStates \cup {state}
        /\ IF IsCompleted(state)
             THEN /\ dpc' = "results"
                  /\ UNCHANGED <<i, dprinted, dret>>
             ELSE IF IsFailed(state)
                    THEN /\ dpc' = "done"
                         /\ dprinted' = "Query failed"
                         /\ dret' = RetNone
                         /\ UNCHANGED i
                    ELSE /\ dpc' = "loop"
                         /\ i' = i + 1
                         /\ UNCHANGED <<dprinted, dret>>
    /\ UNCHANGED <<execPosts, execCode, sleeps, slept, resultsReqs, resultsBody>>
    /\ UNCHANGED notDune

\* results_resp = requests.get(results_url); return results_resp.json()
ResultsGet ==
    /\ dpc = "results"
    /\ \E body \in ResultsBodies :
        /\ resultsReqs' = resultsReqs + 1
        /\ resultsBody' = body
        /\ dret' = RetJson(body)
    /\ dpc' = "done"
    /\ UNCHANGED <<i, execPosts, execCode, sleeps, slept, statusReqs, seenStates,
                   lastState, dprinted>>
    /\ UNCHANGED notDune

\* The loop is exhausted: print("Query timed out"); return None
TimedOut ==
    /\ dpc = "loop"
    /\ ~LoopContinues(i)
    /\ dprinted' = "Query timed out"
    /\ dret' = RetNone
    /\ dpc' = "done"
    /\ UNCHANGED <<i, execPosts, execCode, sleeps, slept, statusReqs, resultsReqs,
                   seenStates, lastState, resultsBody>>
    /\ UNCHANGED notDune

\* The script starts: the interpreter is about to run the module-level code.
InitDuneScript ==
    /\ DUNE_API_KEY \in EnvValues
    /\ exit_status = NoExit
    /\ dpc = "import"
    /\ i = 0
    /\ execPosts = 0
    /\ execCode = 0
    /\ sleeps = 0
    /\ slept = 0
    /\ fret = NotFetched
    /\ cache_writes = 0
    /\ cache_rows = NoRows
    /\ dreport = "none"
    /\ statusReqs = 0
    /\ resultsReqs = 0
    /\ seenStates = {}
    /\ lastState = NoState
    /\ resultsBody = NoBody
    /\ dprinted = "nothing"
    /\ dret = NotReturned

\* DUNE_API_KEY = os.getenv("DUNE_API_KEY"); if not DUNE_API_KEY: the two
\* prints and exit(1). Otherwise the module defines its functions and main
\* reaches execute_sql_query.
LoadModule ==
    /\ dpc = "import"
    /\ IF KeyMissing(DUNE_API_KEY)
         THEN /\ exit_status' = 1
              /\ dprinted' = "Error: DUNE_API_KEY not found in .env file"
              /\ dpc' = "exited"
         ELSE /\ dpc' = "start"
              /\ UNCHANGED <<exit_status, dprinted>>
    /\ UNCHANGED <<DUNE_API_KEY, i, execPosts, execCode, sleeps, slept, statusReqs,
                   resultsReqs, seenStates, lastState, resultsBody, dret>>
    /\ UNCHANGED <<duneMainVars, corrVars, datesVars, kalshiVars, comparisonVars,
                   dashboardVars>>

\* fetch_polymarket_daily_volume after results = execute_sql_query(sql): with
\* a "result" the rows are written to the cache file and returned, else None
\* is returned.
SaveResults ==
    /\ dpc = "done"
    /\ IF HasResult(dret)
         THEN /\ cache_writes' = cache_writes + 1
              /\ cache_rows' = dret.body.rows
              /\ fret' = FetchRows(dret.body.rows)
         ELSE /\ fret' = FetchNone
              /\ UNCHANGED <<cache_writes, cache_rows>>
    /\ dpc' = "fetched"
    /\ UNCHANGED <<i, execPosts, execCode, sleeps, slept, statusReqs, resultsReqs,
                   seenStates, lastState, resultsBody, dprinted, dret, dreport>>
    /\ UNCHANGED <<envVars, corrVars, datesVars, kalshiVars, comparisonVars,
                   dashboardVars>>

\* main: data = fetch_polymarket_daily_volume(); if data: ... else: ...
MainReport ==
    /\ dpc = "fetched"
    /\ dreport' = IF DataTruthy(fret) THEN "Successfully fetched"
                                      ELSE "Could not fetch data"
    /\ dpc' = "reported"
    /\ UNCHANGED <<i, execPosts, execCode, sleeps, slept, statusReqs, resultsReqs,
                   seenStates, lastState, resultsBody, dprinted, dret, fret,
                   cache_writes, cache_rows>>
    /\ UNCHANGED <<envVars, corrVars, datesVars, kalshiVars, comparisonVars,
                   dashboardVars>>

NextDuneMain == SaveResults \/ MainReport

NextDune == ExecutePost \/ Sleep \/ StatusPoll \/ ResultsGet \/ TimedOut


(***************************************************************************)
(* Python floats.  A float is m * 2^e with a mantissa of MantissaBits bits *)
(* (2^(MantissaBits-1) <= |m| < 2^MantissaBits, or m = 0), every operation *)
(* rounded to the nearest such value, ties to even, as IEEE 754 binary64   *)
(* does with 53 bits.  The exponent is unbounded: overflow and underflow   *)
(* are not modelled.                                                       *)
(***************************************************************************)

\* The width of the mantissa (53 in binary64).
MantissaBits == 7

RECURSIVE Pow2(_)
Pow2(k) == IF k <= 0 THEN 1 ELSE 2 * Pow2(k - 1)

Abs(x) == IF x < 0 THEN -x ELSE x
Sign(x) == IF x < 0 THEN -1 ELSE 1

Zero == [m |-> 0, e |-> 0]

\* The outcome of a division by zero (Python raises ZeroDivisionError).
ZeroDivisionError == [m |-> 0, e |-> -1]

\* The float nearest to (num / den) * 2^e, for num > 0 and den > 0.
RECURSIVE RoundPositive(_, _, _)
RoundPositive(num, den, e) ==
    IF num >= den * Pow2(MantissaBits)
      THEN RoundPositive(num, 2 * den, e + 1)
    ELSE IF num < den * Pow2(MantissaBits - 1)
      THEN RoundPositive(2 * num, den, e - 1)
    ELSE LET q == num \div den
             r == num % den
             up == (2 * r > den) \/ (2 * r = den /\ q % 2 = 1)
             m == IF up THEN q + 1 ELSE q
         IN  IF m = Pow2(MantissaBits)
               THEN [m |-> Pow2(MantissaBits - 1), e |-> e + 1]
               ELSE [m |-> m, e |-> e]

\* The float nearest to sign * (num / den) * 2^e.
Round(sign, num, den, e) ==
    IF num = 0 THEN Zero
    ELSE LET r == RoundPositive(num, den, e)
         IN  [m |-> sign * r.m, e |-> r.e]

\* float(n) of an int n.
FromInt(n) == Round(Sign(n), Abs(n), 1, 0)

\* a + b
FAdd(a, b) ==
    IF a.m = 0 THEN b
    ELSE IF b.m = 0 THEN a
    ELSE IF a.e - b.e > MantissaBits + 1 THEN a
    ELSE IF b.e - a.e > MantissaBits + 1 THEN b
    ELSE LET lo == IF a.e < b.e THEN a.e ELSE b.e
             sum == a.m * Pow2(a.e - lo) + b.m * Pow2(b.e - lo)
         IN  Round(Sign(sum), Abs(sum), 1, lo)

\* a - b
FSub(a, b) == FAdd(a, [m |-> -b.m, e |-> b.e])

\* a * b
FMul(a, b) == Round(Sign(a.m) * Sign(b.m), Abs(a.m * b.m), 1, a.e + b.e)

\* a / b
FDiv(a, b) ==
    IF b.m = 0 THEN ZeroDivisionError
    ELSE Round(Sign(a.m) * Sign(b.m), Abs(a.m), Abs(b.m), a.e - b.e)

\* a ** 0.5 for a >= 0: the rounded square root.
FSqrt(a) ==
    IF a.m = 0 THEN Zero
    ELSE LET k == IF (a.e - MantissaBits) % 2 = 0
                    THEN MantissaBits ELSE MantissaBits - 1
             M == a.m * Pow2(k)
             q == CHOOSE x \in Pow2(MantissaBits - 1)..(Pow2(MantissaBits) - 1) :
                      x * x <= M /\ M < (x + 1) * (x + 1)
             m == IF M > q * q + q THEN q + 1 ELSE q
             e == (a.e - k) \div 2
         IN  IF m = Pow2(MantissaBits)
               THEN [m |-> Pow2(MantissaBits - 1), e |-> e + 1]
               ELSE [m |-> m, e |-> e]

\* a <= b, exactly.
FLeq(a, b) ==
    LET lo == IF a.e < b.e THEN a.e ELSE b.e
    IN  a.m * Pow2(a.e - lo) <= b.m * Pow2(b.e - lo)

(***************************************************************************)
(* f1_correlation.py                                                       *)
(***************************************************************************)

\* The longest series drawn as an input.
MaxPoints == 3

One == FromInt(1)

\* The float nearest to 0.1, whose multiples round in sums.
Tenth == Round(1, 1, 10, 0)

\* The values a series is drawn from.
Values == {Zero, One, Tenth}

\* sum(xs): the builtin adds from the left, starting at 0.
RECURSIVE FSum(_)
FSum(xs) ==
    IF xs = <<>> THEN Zero
    ELSE FAdd(FSum(SubSeq(xs, 1, Len(xs) - 1)), xs[Len(xs)])

\* sum(...) / n
Mean(xs, n) == FDiv(FSum(xs), FromInt(n))

\* A variant of StdDev: the sample deviation, dividing by n - 1.
StdDevSample(xs, n) ==
    LET mean == Mean(xs, n)
        sq == [k \in 1..Len(xs) |-> FMul(FSub(xs[k], mean), FSub(xs[k], mean))]
    IN  FSqrt(FDiv(FSum(sq), FromInt(n - 1)))

\* (sum((p - mean_p)**2 for p in prices) / n) ** 0.5
StdDev(xs, n) ==
    LET mean == Mean(xs, n)
        sq == [k \in 1..Len(xs) |-> FMul(FSub(xs[k], mean), FSub(xs[k], mean))]
    IN  FSqrt(FDiv(FSum(sq), FromInt(n)))

\* A variant of Covariance: both factors are taken about the first mean.
CovarianceOneMean(ps, vs, n) ==
    LET mean_p == Mean(ps, n)
        len == IF Len(ps) < Len(vs) THEN Len(ps) ELSE Len(vs)
        prod == [k \in 1..len |-> FMul(FSub(ps[k], mean_p), FSub(vs[k], mean_p))]
    IN  FDiv(FSum(prod), FromInt(n))

\* sum((p - mean_p) * (v - mean_v) for p, v in zip(prices, volumes)) / n
Covariance(ps, vs, n) ==
    LET mean_p == Mean(ps, n)
        mean_v == Mean(vs, n)
        len == IF Len(ps) < Len(vs) THEN Len(ps) ELSE Len(vs)
        prod == [k \in 1..len |-> FMul(FSub(ps[k], mean_p), FSub(vs[k], mean_v))]
    IN  FDiv(FSum(prod), FromInt(n))

\* calculate_correlation(prices, volumes)
calculate_correlation(ps, vs) ==
    LET n == Len(ps)
    IN  IF n < 2 THEN Zero
        ELSE LET cov == Covariance(ps, vs, n)
                 std_p == StdDev(ps, n)
                 std_v == StdDev(vs, n)
             IN  IF std_p.m > 0 /\ std_v.m > 0
                   THEN FDiv(cov, FMul(std_p, std_v))
                   ELSE Zero

\* superbowl_comparison.py, create_price_volume_correlation_chart: n =
\* len(prices); the means divide by n; the quotient is guarded by
\* "if std_p > 0 and std_v > 0 else 0".
superbowl_correlation(ps, vs) ==
    LET n == Len(ps)
    IN  IF n = 0 THEN ZeroDivisionError
        ELSE LET cov == Covariance(ps, vs, n)
                 std_p == StdDev(ps, n)
                 std_v == StdDev(vs, n)
             IN  IF std_p.m > 0 /\ std_v.m > 0
                   THEN FDiv(cov, FMul(std_p, std_v))
                   ELSE Zero

\* comparison_kalshi_polymarket.py, create_scatter_comparison: the same
\* computation with no guard, correlation = cov / (std_k * std_p).
scatter_correlation(ks, ps) ==
    LET n == Len(ks)
    IN  IF n = 0 THEN ZeroDivisionError
        ELSE FDiv(Covariance(ks, ps, n), FMul(StdDev(ks, n), StdDev(ps, n)))

\* No value yet: calculate_correlation has not returned.
NoCorrelation == [m |-> 0, e |-> -2]

IdleCorr ==
    /\ cpc = "idle"
    /\ prices = <<>>
    /\ volumes = <<>>
    /\ correlation = NoCorrelation
    /\ swapped_corr = NoCorrelation
    /\ superbowl_corr = NoCorrelation
    /\ scatter_corr = NoCorrelation

\* The two series come from the same daily records: they have one length.
InitCorr ==
    /\ cpc = "input"
    /\ \E n \in 0..MaxPoints :
        /\ prices \in [1..n -> Values]
        /\ volumes \in [1..n -> Values]
    /\ correlation = NoCorrelation
    /\ swapped_corr = NoCorrelation
    /\ superbowl_corr = NoCorrelation
    /\ scatter_corr = NoCorrelation

\* correlation = calculate_correlation(prices, volumes)
Correlate ==
    /\ cpc = "input"
    /\ correlation' = calculate_correlation(prices, volumes)
    /\ cpc' = "done"
    /\ UNCHANGED <<prices, volumes, swapped_corr, superbowl_corr, scatter_corr>>
    /\ UNCHANGED notCorr

\* calculate_correlation(volumes, prices): the call with the series swapped.
CorrelateSwapped ==
    /\ cpc = "done"
    /\ swapped_corr' = calculate_correlation(volumes, prices)
    /\ cpc' = "swapped"
    /\ UNCHANGED <<prices, volumes, correlation, superbowl_corr, scatter_corr>>
    /\ UNCHANGED notCorr

\* The inline computation of create_price_volume_correlation_chart on the
\* same series.
CorrelateSuperbowl ==
    /\ cpc = "swapped"
    /\ superbowl_corr' = superbowl_correlation(prices, volumes)
    /\ cpc' = "superbowl"
    /\ UNCHANGED <<prices, volumes, correlation, swapped_corr, scatter_corr>>
    /\ UNCHANGED notCorr

\* The inline computation of create_scatter_comparison on the same series.
CorrelateScatter ==
    /\ cpc = "superbowl"
    /\ scatter_corr' = scatter_correlation(prices, volumes)
    /\ cpc' = "scatter"
    /\ UNCHANGED <<prices, volumes, correlation, swapped_corr, superbowl_corr>>
    /\ UNCHANGED notCorr

NextCorr == Correlate \/ CorrelateSwapped \/ CorrelateSuperbowl \/ CorrelateScatter

(***************************************************************************)
(* comparison_kalshi_polymarket.py                                         *)
(***************************************************************************)

\* The longest series drawn as an input.
MaxRecords == 2

\* A str is the sequence of its code points; Python orders strs
\* lexicographically by code point, a proper prefix first.
StrLess(a, b) ==
    \/ /\ Len(a) < Len(b)
       /\ \A k \in 1..Len(a) : a[k] = b[k]
    \/ \E k \in 1..(IF Len(a) < Len(b) THEN Len(a) ELSE Len(b)) :
        /\ \A j \in 1..(k - 1) : a[j] = b[j]
        /\ a[k] < b[k]

\* "2024-11-05", "2024-11-06", "2024-12-01" and "2024-11".
DateStrings ==
    {<<50, 48, 50, 52, 45, 49, 49, 45, 48, 53>>,
     <<50, 48, 50, 52, 45, 49, 49, 45, 48, 54>>,
     <<50, 48, 50, 52, 45, 49, 50, 45, 48, 49>>,
     <<50, 48, 50, 52, 45, 49, 49>>}

\* The daily records of the two cache files: {"date": ..., "price": ...}.
KalshiRecords == [date : DateStrings, price : {52}]
PolymarketRecords == [date : DateStrings, price : {48, 55}]

SeqsUpTo(S, n) == UNION {[1..k -> S] : k \in 0..n}

\* set(d.keys()) of the dict built from a series.
DateSet(data) == {data[k].date : k \in 1..Len(data)}

\* {d["date"]: d for d in data}: a later record replaces an earlier one of
\* the same date.
DictByDate(data) ==
    [d \in DateSet(data) |->
        LET last == CHOOSE k \in 1..Len(data) :
                        /\ data[k].date = d
                        /\ \A j \in (k + 1)..Len(data) : data[j].date # d
        IN  data[last]]

\* sorted(S) of a set of strs: the ascending list.
RECURSIVE Sorted(_)
Sorted(S) ==
    IF S = {} THEN <<>>
    ELSE LET least == CHOOSE x \in S : \A y \in S \ {x} : StrLess(x, y)
         IN  <<least>> \o Sorted(S \ {least})

\* The keys of the dict built from a series, in insertion order.
RECURSIVE KeysInOrder(_)
KeysInOrder(data) ==
    IF data = <<>> THEN <<>>
    ELSE LET front == SubSeq(data, 1, Len(data) - 1)
             d == data[Len(data)].date
         IN  IF d \in DateSet(front) THEN KeysInOrder(front)
             ELSE KeysInOrder(front) \o <<d>>

\* A variant of get_matching_dates: the union of the dates.
get_matching_dates_union(kd, pd) ==
    [common_dates |-> Sorted(DateSet(kd) \cup DateSet(pd)),
     kalshi_dates |-> DictByDate(kd),
     polymarket_dates |-> DictByDate(pd)]

\* A variant of get_matching_dates: the common dates in the order of the
\* first series, not sorted.
get_matching_dates_unsorted(kd, pd) ==
    [common_dates |-> SelectSeq(KeysInOrder(kd), LAMBDA d : d \in DateSet(pd)),
     kalshi_dates |-> DictByDate(kd),
     polymarket_dates |-> DictByDate(pd)]

\* get_matching_dates(kalshi_data, polymarket_data): the returned tuple.
get_matching_dates(kd, pd) ==
    [common_dates |-> Sorted(DOMAIN DictByDate(kd) \cap DOMAIN DictByDate(pd)),
     kalshi_dates |-> DictByDate(kd),
     polymarket_dates |-> DictByDate(pd)]

\* The rearrangements of a list.
Rearrangements(xs) ==
    {[k \in 1..Len(xs) |-> xs[f[k]]] :
        f \in {g \in [1..Len(xs) -> 1..Len(xs)] :
                  \A a, b \in 1..Len(xs) : g[a] = g[b] => a = b}}

IdleDates ==
    /\ mpc = "idle"
    /\ kalshi_data = <<>>
    /\ polymarket_data = <<>>
    /\ common_dates = <<>>
    /\ kalshi_dates = <<>>
    /\ polymarket_dates = <<>>
    /\ variant = "none"
    /\ common_dates_2 = <<>>

InitDates ==
    /\ mpc = "input"
    /\ kalshi_data \in SeqsUpTo(KalshiRecords, MaxRecords)
    /\ polymarket_data \in SeqsUpTo(PolymarketRecords, MaxRecords)
    /\ common_dates = <<>>
    /\ kalshi_dates = <<>>
    /\ polymarket_dates = <<>>
    /\ variant = "none"
    /\ common_dates_2 = <<>>

\* common_dates, kalshi_dict, polymarket_dict =
\*     get_matching_dates(kalshi_data, polymarket_data)
Match ==
    /\ mpc = "input"
    /\ LET r == get_matching_dates(kalshi_data, polymarket_data)
       IN  /\ common_dates' = r.common_dates
           /\ kalshi_dates' = r.kalshi_dates
           /\ polymarket_dates' = r.polymarket_dates
    /\ mpc' = "matched"
    /\ UNCHANGED <<kalshi_data, polymarket_data, variant, common_dates_2>>
    /\ UNCHANGED notDates

\* A second call with the two series swapped.
MatchSwapped ==
    /\ mpc = "matched"
    /\ common_dates_2' = get_matching_dates(polymarket_data, kalshi_data).common_dates
    /\ variant' = "swapped"
    /\ mpc' = "compared"
    /\ UNCHANGED <<kalshi_data, polymarket_data, common_dates, kalshi_dates,
                   polymarket_dates>>
    /\ UNCHANGED notDates

\* A second call with the records of the series rearranged.
MatchPermuted ==
    /\ mpc = "matched"
    /\ \E kd \in Rearrangements(kalshi_data), pd \in Rearrangements(polymarket_data) :
        /\ kd # kalshi_data \/ pd # polymarket_data
        /\ common_dates_2' = get_matching_dates(kd, pd).common_dates
    /\ variant' = "permuted"
    /\ mpc' = "compared"
    /\ UNCHANGED <<kalshi_data, polymarket_data, common_dates, kalshi_dates,
                   polymarket_dates>>
    /\ UNCHANGED notDates

NextDates == Match \/ MatchSwapped \/ MatchPermuted

(***************************************************************************)
(* kalshi_data_fetcher.py                                                  *)
(***************************************************************************)

\* The longest candlestick list a response holds.
MaxCandles == 2

\* MARKETS.items(), in the order of the dict.
MarketKeys == <<"presidential", "nyc_mayor">>

\* Status codes of the candlesticks endpoint.
KalshiCodes == {200, 404, 500}

\* end_period_ts values: 2024-11-01 00:00:00, 2024-11-01 09:00:00 and
\* 2024-11-02 00:00:00 UTC.
Timestamps == {1730419200, 1730451600, 1730505600}

\* A candlestick: its end_period_ts, its price.close in cents and its volume
\* (high, low, open and open_interest are carried like close and volume).
Candles == [end_period_ts : Timestamps, close : {55}, volume : {0, 7}]

\* The responses of the candlesticks endpoint: an error, or a JSON body with
\* or without the "candlesticks" key.
Responses ==
    [status_code : KalshiCodes \ {200}, has_key : {FALSE}, candlesticks : {<<>>}]
    \cup [status_code : {200}, has_key : {FALSE}, candlesticks : {<<>>}]
    \cup [status_code : {200}, has_key : {TRUE},
          candlesticks : SeqsUpTo(Candles, MaxCandles)]

\* A returned list, and None.
ListValue(xs) == [isNone |-> FALSE, list |-> xs]
NoneValue == [isNone |-> TRUE, list |-> <<>>]

\* A variant of fetch_candlesticks without the status code check.
fetch_candlesticks_unchecked(response) ==
    [printed |-> 0,
     ret |-> ListValue(IF response.has_key THEN response.candlesticks ELSE <<>>)]

\* fetch_candlesticks, from the response on: what it prints as an error (0:
\* nothing) and what it returns.
fetch_candlesticks(response) ==
    IF response.status_code # 200
      THEN [printed |-> response.status_code, ret |-> ListValue(<<>>)]
      ELSE [printed |-> 0,
            ret |-> ListValue(IF response.has_key THEN response.candlesticks
                              ELSE <<>>)]

\* The civil date <<year, month, day>> of a day number counted from
\* 1970-01-01, in the proleptic Gregorian calendar of datetime.
CivilFromDays(days) ==
    LET z == days + 719468
        era == z \div 146097
        doe == z - era * 146097
        yoe == (doe - doe \div 1460 + doe \div 36524 - doe \div 146096) \div 365
        doy == doe - (365 * yoe + yoe \div 4 - yoe \div 100)
        mp == (5 * doy + 2) \div 153
        d == doy - (153 * mp + 2) \div 5 + 1
        m == IF mp < 10 THEN mp + 3 ELSE mp - 9
        y == yoe + era * 400 + (IF m <= 2 THEN 1 ELSE 0)
    IN  <<y, m, d>>

\* The code point of a decimal digit.
Digit(n) == 48 + n

\* datetime.utcfromtimestamp(end_ts).strftime("%Y-%m-%d")
DateOfTimestamp(end_ts) ==
    LET ymd == CivilFromDays(end_ts \div 86400)
        y == ymd[1]
        m == ymd[2]
        d == ymd[3]
    IN  <<Digit(y \div 1000), Digit((y \div 100) % 10), Digit((y \div 10) % 10),
          Digit(y % 10), 45, Digit(m \div 10), Digit(m % 10), 45,
          Digit(d \div 10), Digit(d % 10)>>

\* The record process_candlesticks appends for a candle.
DailyRecord(candle) ==
    [date |-> DateOfTimestamp(candle.end_period_ts),
     price |-> FDiv(FromInt(candle.close), FromInt(100)),
     daily_volume |-> candle.volume]

\* A variant of SortByDate: a record is inserted before the records of its
\* own date, so that equal dates come out in reverse input order.
RECURSIVE SortByDateUnstable(_)
SortByDateUnstable(data) ==
    IF data = <<>> THEN <<>>
    ELSE LET front == SortByDateUnstable(SubSeq(data, 1, Len(data) - 1))
             x == data[Len(data)]
             pos == Cardinality({k \in 1..Len(front) :
                                    StrLess(front[k].date, x.date)})
         IN  SubSeq(front, 1, pos) \o <<x>> \o SubSeq(front, pos + 1, Len(front))

\* daily_data.sort(key=lambda x: x["date"]): list.sort is stable; a record is
\* inserted after the records whose date is not greater.
RECURSIVE SortByDate(_)
SortByDate(data) ==
    IF data = <<>> THEN <<>>
    ELSE LET front == SortByDate(SubSeq(data, 1, Len(data) - 1))
             x == data[Len(data)]
             pos == Cardinality({k \in 1..Len(front) :
                                    ~StrLess(x.date, front[k].date)})
         IN  SubSeq(front, 1, pos) \o <<x>> \o SubSeq(front, pos + 1, Len(front))

\* process_candlesticks(candlesticks)
process_candlesticks(cs) ==
    SortByDate([k \in 1..Len(cs) |-> DailyRecord(cs[k])])

\* A variant of SumVolume: the change of the volume from the first day to the
\* last.
NetVolume(data) ==
    IF data = <<>> THEN 0
    ELSE data[Len(data)].daily_volume - data[1].daily_volume

\* sum(d["daily_volume"] for d in daily_data)
RECURSIVE SumVolume(_)
SumVolume(data) ==
    IF data = <<>> THEN 0
    ELSE SumVolume(SubSeq(data, 1, Len(data) - 1)) + data[Len(data)].daily_volume

\* A variant of MarketEntry: days_of_data counts the distinct dates.
MarketEntryDistinctDays(cs) ==
    LET daily_data == process_candlesticks(cs)
    IN  [total_volume |-> SumVolume(daily_data),
         days_of_data |-> Cardinality({daily_data[k].date : k \in 1..Len(daily_data)}),
         daily_data |-> daily_data]

\* The entry main stores for a market.
MarketEntry(cs) ==
    LET daily_data == process_candlesticks(cs)
    IN  [total_volume |-> SumVolume(daily_data),
         days_of_data |-> Len(daily_data),
         daily_data |-> daily_data]

\* A variant of the loop: a market whose fetch gave nothing is fetched again.
RetryEmptyMarket(idx, cs) == IF cs = <<>> THEN idx ELSE idx + 1

\* for market_key, market_info in MARKETS.items(): the next market.
NextMarket(idx, cs) == idx + 1

\* A variant of LoopDone: the loop ends after the first market.
LoopDoneAfterFirst(idx) == idx > 1

\* The for loop over MARKETS.items() has no market left.
LoopDone(idx) == idx > Len(MarketKeys)

NoFile == "no file"

IdleKalshi ==
    /\ kpc = "idle"
    /\ kidx = 1
    /\ kreqs = [k \in 1..Len(MarketKeys) |-> 0]
    /\ kcode = 0
    /\ kprinted = 0
    /\ candlesticks = NoneValue
    /\ output = <<>>
    /\ kwrites = 0
    /\ kfile = NoFile
    /\ kfetched = <<>>

InitKalshi ==
    /\ kpc = "fetch"
    /\ kidx = 1
    /\ kreqs = [k \in 1..Len(MarketKeys) |-> 0]
    /\ kcode = 0
    /\ kprinted = 0
    /\ candlesticks = NoneValue
    /\ output = <<>>
    /\ kwrites = 0
    /\ kfile = NoFile
    /\ kfetched = <<>>

\* candlesticks = fetch_candlesticks(...): the request, its response and the
\* value returned.
FetchCandlesticks ==
    /\ kpc = "fetch"
    /\ \E response \in Responses :
        LET r == fetch_candlesticks(response)
        IN  /\ kcode' = response.status_code
            /\ kprinted' = r.printed
            /\ candlesticks' = r.ret
    /\ kreqs' = [kreqs EXCEPT ![kidx] = @ + 1]
    /\ kfetched' = [k \in DOMAIN kfetched \cup {kidx} |->
                        IF k = kidx THEN [status_code |-> kcode', ret |-> candlesticks']
                        ELSE kfetched[k]]
    /\ kpc' = "store"
    /\ UNCHANGED <<kidx, output, kwrites, kfile>>
    /\ UNCHANGED notKalshi

\* if candlesticks: output[market_key] = {...}; then the loop goes on to the
\* next market, or ends.
StoreMarket ==
    /\ kpc = "store"
    /\ output' = IF ~candlesticks.isNone /\ candlesticks.list # <<>>
                   THEN [k \in DOMAIN output \cup {kidx} |->
                            IF k = kidx THEN MarketEntry(candlesticks.list)
                            ELSE output[k]]
                   ELSE output
    /\ kidx' = NextMarket(kidx, candlesticks.list)
    /\ kpc' = IF LoopDone(kidx') THEN "save" ELSE "fetch"
    /\ UNCHANGED <<kreqs, kcode, kprinted, candlesticks, kwrites, kfile, kfetched>>
    /\ UNCHANGED notKalshi

\* with open(output_path, "w") as f: json.dump(output, f, indent=2)
SaveCache ==
    /\ kpc = "save"
    /\ kwrites' = kwrites + 1
    /\ kfile' = output
    /\ kpc' = "done"
    /\ UNCHANGED <<kidx, kreqs, kcode, kprinted, candlesticks, output, kfetched>>
    /\ UNCHANGED notKalshi

NextKalshi == FetchCandlesticks \/ StoreMarket \/ SaveCache

(***************************************************************************)
(* comparison_kalshi_polymarket.py: main and the three create functions    *)
(***************************************************************************)

\* The dates of the presidential series: "2024-11-05" and "2024-11-06".
ComparisonDates == {d \in DateStrings : Len(d) = 10 /\ d[7] = 49}

\* {"date", "price", "daily_volume"} records as process_candlesticks caches
\* them: price is close / 100.
KalshiDaily ==
    {[date |-> d, price |-> FDiv(FromInt(q.close), FromInt(100)),
      daily_volume |-> q.volume] :
        d \in ComparisonDates,
        q \in {[close |-> 52, volume |-> 0], [close |-> 55, volume |-> 7]}}

PolymarketDaily ==
    {[date |-> d, price |-> FDiv(FromInt(q.cents), FromInt(100)),
      daily_volume |-> q.volume] :
        d \in ComparisonDates,
        q \in {[cents |-> 48, volume |-> 0], [cents |-> 55, volume |-> 1200]}}

\* A market entry of a cache file: the key is absent, or it holds a list.
MarketEntries(records) ==
    {[present |-> FALSE, daily_data |-> <<>>]} \cup
    {[present |-> TRUE, daily_data |-> data] : data \in SeqsUpTo(records, MaxRecords)}

\* kalshi.get("presidential", {}).get("daily_data", [])
DailyData(entry) == IF entry.present THEN entry.daily_data ELSE <<>>

Charts == {"presidential", "scatter", "volume"}

ChartFile(chart) ==
    CASE chart = "presidential" -> "comparison_5_presidential_platforms.html"
      [] chart = "scatter" -> "comparison_6_scatter_platforms.html"
      [] chart = "volume" -> "comparison_7_volume_platforms.html"

NotCalled == "not called"

\* [kalshi_dict[d]["price"] * 100 for d in common_dates]
PricesOf(dict, common) == [k \in 1..Len(common) |-> FMul(dict[common[k]].price, FromInt(100))]

\* [kalshi_dict[d]["daily_volume"] / 1e6 for d in common_dates]; 1e6 is
\* rounded to the mantissa width.
VolumesOf(dict, common) ==
    [k \in 1..Len(common) |-> FDiv(FromInt(dict[common[k]].daily_volume), FromInt(1000000))]

\* A variant of avg_diff: an empty list averages to 0.
avg_diff_guarded(price_diff) ==
    IF price_diff = <<>> THEN Zero ELSE FDiv(FSum(price_diff), FromInt(Len(price_diff)))

\* avg_diff = sum(price_diff) / len(price_diff)
avg_diff(price_diff) == FDiv(FSum(price_diff), FromInt(Len(price_diff)))

\* The outcome of create_presidential_comparison: None for an empty Kalshi
\* series, else a figure unless the average of price_diff divides by zero.
create_presidential_comparison(k, p) ==
    LET kd == DailyData(k)
        pd == DailyData(p)
    IN  IF kd = <<>> THEN "None"
        ELSE LET m == get_matching_dates(kd, pd)
                 dates == m.common_dates
                 kalshi_prices == PricesOf(m.kalshi_dates, dates)
                 polymarket_prices == PricesOf(m.polymarket_dates, dates)
                 price_diff == [j \in 1..Len(dates) |->
                                   FSub(kalshi_prices[j], polymarket_prices[j])]
             IN  IF avg_diff(price_diff) = ZeroDivisionError
                   THEN "ZeroDivisionError"
                   ELSE "Figure"

\* The outcome of create_scatter_comparison: common_dates[0] in the colorbar
\* raises for no common date; the correlation is an unguarded quotient.
create_scatter_comparison(k, p) ==
    LET kd == DailyData(k)
        pd == DailyData(p)
    IN  IF kd = <<>> THEN "None"
        ELSE LET m == get_matching_dates(kd, pd)
                 kalshi_prices == PricesOf(m.kalshi_dates, m.common_dates)
                 polymarket_prices == PricesOf(m.polymarket_dates, m.common_dates)
             IN  IF m.common_dates = <<>> THEN "IndexError"
                 ELSE IF scatter_correlation(kalshi_prices, polymarket_prices)
                            = ZeroDivisionError
                   THEN "ZeroDivisionError"
                   ELSE "Figure"

\* The outcome of create_volume_comparison: the annotation formats
\* poly_total / kalshi_total.
create_volume_comparison(k, p) ==
    LET kd == DailyData(k)
        pd == DailyData(p)
    IN  IF kd = <<>> THEN "None"
        ELSE LET m == get_matching_dates(kd, pd)
                 kalshi_total == FSum(VolumesOf(m.kalshi_dates, m.common_dates))
                 poly_total == FSum(VolumesOf(m.polymarket_dates, m.common_dates))
             IN  IF FDiv(poly_total, kalshi_total) = ZeroDivisionError
                   THEN "ZeroDivisionError"
                   ELSE "Figure"

\* A variant of Truthy: None passes the test too.
TruthyOrNone(fig) == fig \in {"Figure", "None"}

\* if fig: a figure is true, None is false.
Truthy(fig) == fig = "Figure"

\* The Kalshi fetcher caches daily_data sorted by date.
IsSortedByDate(data) ==
    \A j \in 1..(Len(data) - 1) : ~StrLess(data[j + 1].date, data[j].date)

IdleComparison ==
    /\ xpc = "idle"
    /\ caches_exist = FALSE
    /\ kalshi = [present |-> FALSE, daily_data |-> <<>>]
    /\ polymarket = [present |-> FALSE, daily_data |-> <<>>]
    /\ figs = [c \in Charts |-> NotCalled]
    /\ written = {}
    /\ xerror = "none"

\* main is about to call load_data; without the cache files there is no
\* content.
InitComparison ==
    /\ xpc = "load"
    /\ caches_exist \in BOOLEAN
    /\ kalshi \in MarketEntries(KalshiDaily)
    /\ polymarket \in MarketEntries(PolymarketDaily)
    /\ ~caches_exist => ~kalshi.present /\ ~polymarket.present
    /\ IsSortedByDate(kalshi.daily_data)
    /\ figs = [c \in Charts |-> NotCalled]
    /\ written = {}
    /\ xerror = "none"

\* kalshi, polymarket = load_data(): open() raises for a missing file.
LoadData ==
    /\ xpc = "load"
    /\ IF caches_exist
         THEN xpc' = "presidential" /\ UNCHANGED xerror
         ELSE xpc' = "raised" /\ xerror' = "FileNotFoundError"
    /\ UNCHANGED <<caches_exist, kalshi, polymarket, figs, written>>
    /\ UNCHANGED notComparison

\* fig = create_...(kalshi, polymarket); if fig: fig.write_html(output_path).
\* An error raised by the create function ends main.
ChartStep(chart, fig, next) ==
    /\ figs' = [figs EXCEPT ![chart] = fig]
    /\ IF fig \in {"Figure", "None"}
         THEN /\ written' = IF Truthy(fig) THEN written \cup {ChartFile(chart)}
                                           ELSE written
              /\ xpc' = next
              /\ UNCHANGED xerror
         ELSE /\ xpc' = "raised"
              /\ xerror' = fig
              /\ UNCHANGED written
    /\ UNCHANGED <<caches_exist, kalshi, polymarket>>
    /\ UNCHANGED notComparison

PresidentialChart ==
    /\ xpc = "presidential"
    /\ ChartStep("presidential", create_presidential_comparison(kalshi, polymarket),
                 "scatter")

ScatterChart ==
    /\ xpc = "scatter"
    /\ ChartStep("scatter", create_scatter_comparison(kalshi, polymarket), "volume")

VolumeChart ==
    /\ xpc = "volume"
    /\ ChartStep("volume", create_volume_comparison(kalshi, polymarket), "done")

NextComparison == LoadData \/ PresidentialChart \/ ScatterChart \/ VolumeChart

(***************************************************************************)
(* polymarket_dashboard.py: load_data, parse_prices, get_markets, main     *)
(***************************************************************************)

IsDigit(c) == c \in 48..57

\* The value of one or two characters of a numeric field; a leading space
\* counts as 0.
NumAt(s, pos, len) ==
    LET val(c) == IF IsDigit(c) THEN c - 48 ELSE 0
    IN  IF len = 2 THEN 10 * val(s[pos]) + val(s[pos + 1]) ELSE val(s[pos])

\* The length strptime's pattern for %m matches at pos: 1[0-2]|0[1-9]|[1-9].
MonthLen(s, pos) ==
    IF /\ pos + 1 <= Len(s)
       /\ \/ s[pos] = 49 /\ s[pos + 1] \in 48..50
          \/ s[pos] = 48 /\ s[pos + 1] \in 49..57
      THEN 2
    ELSE IF pos <= Len(s) /\ s[pos] \in 49..57 THEN 1
    ELSE 0

\* %d: 3[01]|[12]\d|0[1-9]|[1-9]| [1-9].
DayLen(s, pos) ==
    IF /\ pos + 1 <= Len(s)
       /\ \/ s[pos] = 51 /\ s[pos + 1] \in 48..49
          \/ s[pos] \in 49..50 /\ IsDigit(s[pos + 1])
          \/ s[pos] = 48 /\ s[pos + 1] \in 49..57
      THEN 2
    ELSE IF pos <= Len(s) /\ s[pos] \in 49..57 THEN 1
    ELSE IF pos + 1 <= Len(s) /\ s[pos] = 32 /\ s[pos + 1] \in 49..57 THEN 2
    ELSE 0

\* %H: 2[0-3]|[0-1]\d|\d.
HourLen(s, pos) ==
    IF /\ pos + 1 <= Len(s)
       /\ \/ s[pos] = 50 /\ s[pos + 1] \in 48..51
          \/ s[pos] \in 48..49 /\ IsDigit(s[pos + 1])
      THEN 2
    ELSE IF pos <= Len(s) /\ IsDigit(s[pos]) THEN 1
    ELSE 0

\* %M: [0-5]\d|\d.
MinuteLen(s, pos) ==
    IF pos + 1 <= Len(s) /\ s[pos] \in 48..53 /\ IsDigit(s[pos + 1]) THEN 2
    ELSE IF pos <= Len(s) /\ IsDigit(s[pos]) THEN 1
    ELSE 0

IsLeap(y) == y % 4 = 0 /\ (y % 100 # 0 \/ y % 400 = 0)

DaysInMonth(y, m) ==
    IF m = 2 THEN (IF IsLeap(y) THEN 29 ELSE 28)
    ELSE IF m \in {4, 6, 9, 11} THEN 30
    ELSE 31

\* The day number of a civil date, counted from 1970-01-01.
DaysFromCivil(y, m, d) ==
    LET yy == IF m <= 2 THEN y - 1 ELSE y
        era == yy \div 400
        yoe == yy - era * 400
        mp == IF m > 2 THEN m - 3 ELSE m + 9
        doy == (153 * mp + 2) \div 5 + d - 1
        doe == yoe * 365 + yoe \div 4 - yoe \div 100 + doy
    IN  era * 146097 + doe - 719468

\* A date string that strptime rejects (ValueError).
NotParsed == [ok |-> FALSE, ts |-> 0]

\* datetime.strptime(date_str, "%Y-%m-%d"), or "%Y-%m-%dT%H:%M" when
\* with_time: the whole string has to match, and the fields have to name a
\* date that exists. ts counts the minutes from 1970-01-01T00:00, the order
\* of the datetime values.
strptime(s, with_time) ==
    IF ~(Len(s) >= 5 /\ (\A k \in 1..4 : IsDigit(s[k])) /\ s[5] = 45) THEN NotParsed
    ELSE LET y == 1000 * (s[1] - 48) + 100 * (s[2] - 48) + 10 * (s[3] - 48) + (s[4] - 48)
             ml == MonthLen(s, 6)
             dp == 6 + ml + 1
             dl == DayLen(s, dp)
             hp == dp + dl + 1
             hl == HourLen(s, hp)
             np == hp + hl + 1
             nl == MinuteLen(s, np)
         IN  IF ~(ml > 0 /\ Len(s) >= dp /\ s[dp - 1] = 45 /\ dl > 0) THEN NotParsed
             ELSE LET m == NumAt(s, 6, ml)
                      d == NumAt(s, dp, dl)
                  IN  IF y < 1 \/ d > DaysInMonth(y, m) THEN NotParsed
                      ELSE IF ~with_time
                        THEN IF Len(s) = dp + dl - 1
                               THEN [ok |-> TRUE, ts |-> DaysFromCivil(y, m, d) * 1440]
                               ELSE NotParsed
                      ELSE IF /\ Len(s) >= hp /\ s[hp - 1] = 84 /\ hl > 0
                              /\ Len(s) >= np /\ s[np - 1] = 58 /\ nl > 0
                              /\ Len(s) = np + nl - 1
                        THEN [ok |-> TRUE,
                              ts |-> DaysFromCivil(y, m, d) * 1440
                                     + 60 * NumAt(s, hp, hl) + NumAt(s, np, nl)]
                        ELSE NotParsed

\* if "T" in date_str: ... else: ...
ParseDate(date_str) ==
    strptime(date_str, \E k \in 1..Len(date_str) : date_str[k] = 84)

\* The "price" of a record: a number, no "price" key, or a value float()
\* rejects (null, a string that is not a number).
MissingPrice == [m |-> 0, e |-> -3]
BadPrice == [m |-> 0, e |-> -4]

\* float(p.get("price", 0.5)): ok is FALSE when float() raises.
PriceOf(p) ==
    IF p.price = BadPrice THEN [ok |-> FALSE, value |-> Zero]
    ELSE IF p.price = MissingPrice THEN [ok |-> TRUE, value |-> Round(1, 1, 2, 0)]
    ELSE [ok |-> TRUE, value |-> p.price]

\* A variant of ParsedPoints: the first record that raises ends the loop.
RECURSIVE ParsedPointsUntilBad(_)
ParsedPointsUntilBad(price_data) ==
    IF price_data = <<>> THEN <<>>
    ELSE LET p == price_data[1]
             parsed == ParseDate(p.date)
         IN  IF parsed.ok /\ PriceOf(p).ok
               THEN <<[timestamp |-> parsed.ts, price |-> PriceOf(p).value]>>
                    \o ParsedPointsUntilBad(Tail(price_data))
               ELSE <<>>

\* The loop of parse_prices: a PricePoint per record for which neither
\* strptime nor float raises, in input order; the except clause prints and
\* the loop goes on.
RECURSIVE ParsedPoints(_)
ParsedPoints(price_data) ==
    IF price_data = <<>> THEN <<>>
    ELSE LET front == ParsedPoints(SubSeq(price_data, 1, Len(price_data) - 1))
             p == price_data[Len(price_data)]
             parsed == ParseDate(p.date)
         IN  IF parsed.ok /\ PriceOf(p).ok
               THEN front \o <<[timestamp |-> parsed.ts, price |-> PriceOf(p).value]>>
               ELSE front

\* sorted(prices, key=lambda x: x.timestamp): sorted is stable.
RECURSIVE SortByTimestamp(_)
SortByTimestamp(points) ==
    IF points = <<>> THEN <<>>
    ELSE LET front == SortByTimestamp(SubSeq(points, 1, Len(points) - 1))
             x == points[Len(points)]
             pos == Cardinality({k \in 1..Len(front) :
                                    front[k].timestamp <= x.timestamp})
         IN  SubSeq(front, 1, pos) \o <<x>> \o SubSeq(front, pos + 1, Len(front))

parse_prices(price_data) == SortByTimestamp(ParsedPoints(price_data))

\* The date strings of the price records: the strings of DateStrings,
\* "2024-11-05T09:30", "2024-02-30" and the "" that p.get("date", "") gives
\* a record without a date.
PriceDates ==
    DateStrings \cup
    {<<50, 48, 50, 52, 45, 49, 49, 45, 48, 53, 84, 48, 57, 58, 51, 48>>,
     <<50, 48, 50, 52, 45, 48, 50, 45, 51, 48>>,
     <<>>}

\* The price records: every date string with a price of 0.55, and records
\* without a price or with one that is not a number.
PriceRecords ==
    [date : PriceDates, price : {Round(1, 55, 100, 0)}]
    \cup [date : ComparisonDates, price : {MissingPrice, BadPrice}]

\* A presidential section of the data file: absent, or a dict with a
\* daily_prices list.
PriceSections(n) ==
    {[present |-> FALSE, daily_prices |-> <<>>]} \cup
    {[present |-> TRUE, daily_prices |-> ps] : ps \in SeqsUpTo(PriceRecords, n)}

NoSection == "absent"

\* The content of the data file: the two presidential sections, and the
\* status of the two NYC mayor sections.
DataFiles ==
    [pres_pm : PriceSections(MaxRecords),
     pres_kal : {sec \in PriceSections(1) :
                    \A k \in 1..Len(sec.daily_prices) :
                        /\ sec.daily_prices[k].date \in ComparisonDates
                        /\ sec.daily_prices[k].price \notin {MissingPrice, BadPrice}},
     nyc_pm : {NoSection, "NOT_FOUND", "ACTIVE"},
     nyc_kal : {NoSection, "ACTIVE"}]

\* What there is to read when the file does not exist.
NoData ==
    [pres_pm |-> [present |-> FALSE, daily_prices |-> <<>>],
     pres_kal |-> [present |-> FALSE, daily_prices |-> <<>>],
     nyc_pm |-> NoSection,
     nyc_kal |-> NoSection]

\* A variant of load_data: a missing file reads as an empty dict.
load_data_or_empty(exists, content) ==
    [raised |-> "none", data |-> IF exists THEN content ELSE NoData]

\* load_data(): if not DATA_FILE.exists(): raise FileNotFoundError(...).
load_data(exists, content) ==
    IF ~exists THEN [raised |-> "FileNotFoundError", data |-> NoData]
    ELSE [raised |-> "none", data |-> content]

\* The None entry of the markets list.
NoMarket == [name |-> "None", platform |-> "None", prices |-> <<>>, status |-> "None"]

\* if pres and pres.get("daily_prices"): MarketData(..., prices=parse_prices(...))
PresidentialMarket(section, platform) ==
    IF section.present /\ section.daily_prices # <<>>
      THEN [name |-> "2024 Presidential Election", platform |-> platform,
            prices |-> parse_prices(section.daily_prices), status |-> "RESOLVED"]
      ELSE NoMarket

\* A variant of get_markets: the third entry is built for every NYC mayor
\* section that is present.
get_markets_any_status(d) ==
    <<PresidentialMarket(d.pres_pm, "Polymarket"),
      PresidentialMarket(d.pres_kal, "Kalshi"),
      IF d.nyc_pm # NoSection
        THEN [name |-> "2025 NYC Mayor Election", platform |-> "Polymarket",
              prices |-> <<>>, status |-> d.nyc_pm]
        ELSE NoMarket,
      IF d.nyc_kal # NoSection
        THEN [name |-> "2025 NYC Mayor Election", platform |-> "Kalshi",
              prices |-> <<>>, status |-> d.nyc_kal]
        ELSE NoMarket>>

\* The list get_markets builds from the loaded data.
get_markets(d) ==
    <<PresidentialMarket(d.pres_pm, "Polymarket"),
      PresidentialMarket(d.pres_kal, "Kalshi"),
      IF d.nyc_pm = "NOT_FOUND"
        THEN [name |-> "2025 NYC Mayor Election", platform |-> "Polymarket",
              prices |-> <<>>, status |-> "NOT_FOUND"]
        ELSE NoMarket,
      IF d.nyc_kal # NoSection
        THEN [name |-> "2025 NYC Mayor Election", platform |-> "Kalshi",
              prices |-> <<>>, status |-> d.nyc_kal]
        ELSE NoMarket>>

IdleDashboard ==
    /\ bpc = "idle"
    /\ data_file_exists = FALSE
    /\ data_file = NoData
    /\ markets = <<>>
    /\ load_calls = 0
    /\ dashboard_calls = 0
    /\ image_written = FALSE
    /\ breported = "none"

\* main has printed its banner and enters the try block.
InitDashboard ==
    /\ bpc = "start"
    /\ data_file_exists \in BOOLEAN
    /\ data_file \in DataFiles
    /\ ~data_file_exists => data_file = NoData
    /\ markets = <<>>
    /\ load_calls = 0
    /\ dashboard_calls = 0
    /\ image_written = FALSE
    /\ breported = "none"

\* markets = get_markets() and the summary loop; "except FileNotFoundError"
\* prints the error and main ends.
GetMarkets ==
    /\ bpc = "start"
    /\ load_calls' = load_calls + 1
    /\ LET loaded == load_data(data_file_exists, data_file)
       IN  IF loaded.raised # "none"
             THEN /\ breported' = loaded.raised
                  /\ bpc' = "done"
                  /\ UNCHANGED markets
             ELSE /\ markets' = get_markets(loaded.data)
                  /\ bpc' = "dashboard"
                  /\ UNCHANGED breported
    /\ UNCHANGED <<data_file_exists, data_file, dashboard_calls, image_written>>
    /\ UNCHANGED notDashboard

\* create_dashboard(markets, str(save_path)): plt.savefig writes the image, or
\* raises (the output directory is missing) and "except Exception" reports it.
CreateDashboard ==
    /\ bpc = "dashboard"
    /\ dashboard_calls' = dashboard_calls + 1
    /\ \E saved \in BOOLEAN :
        IF saved
          THEN image_written' = TRUE /\ UNCHANGED breported
          ELSE breported' = "Exception" /\ UNCHANGED image_written
    /\ bpc' = "done"
    /\ UNCHANGED <<data_file_exists, data_file, markets, load_calls>>
    /\ UNCHANGED notDashboard

NextDashboard == GetMarkets \/ CreateDashboard

(***************************************************************************)
(* Specifications: one script runs, the others stay idle.                  *)
(***************************************************************************)

\* One call of execute_sql_query.
InitSpecDune == InitDune /\ IdleCorr /\ IdleDates /\ IdleKalshi /\ IdleComparison
    /\ IdleDashboard
SpecDune == InitSpecDune /\ [][NextDune]_vars

\* The script runs on: every request is answered and the interpreter takes
\* its next step.
FairSpecDune == SpecDune /\ WF_vars(NextDune)

\* One run of the Dune fetcher script, from the module-level code on.
InitSpecDuneScript == InitDuneScript /\ IdleCorr /\ IdleDates /\ IdleKalshi /\ IdleComparison
    /\ IdleDashboard
SpecDuneScript == InitSpecDuneScript /\ [][LoadModule \/ NextDune \/ NextDuneMain]_vars

\* One run of the Kalshi fetcher's main.
InitSpecKalshi == InitKalshi /\ IdleDune /\ IdleCorr /\ IdleDates /\ IdleComparison
    /\ IdleDashboard
SpecKalshi == InitSpecKalshi /\ [][NextKalshi]_vars

\* A run of either fetcher: one call of execute_sql_query, or the Kalshi main.
InitSpecFetchers == InitSpecDune \/ InitSpecKalshi
SpecFetchers == InitSpecFetchers /\ [][NextDune \/ NextKalshi]_vars

\* A call of get_matching_dates, and a second call on rearranged arguments.
InitSpecDates == InitDates /\ IdleDune /\ IdleCorr /\ IdleKalshi /\ IdleComparison
    /\ IdleDashboard
SpecDates == InitSpecDates /\ [][NextDates]_vars

\* One call of calculate_correlation.
InitSpecCorr == InitCorr /\ IdleDune /\ IdleDates /\ IdleKalshi /\ IdleComparison
    /\ IdleDashboard
SpecCorr == InitSpecCorr /\ [][NextCorr]_vars

\* One run of the comparison script's main.
InitSpecComparison == InitComparison /\ IdleDune /\ IdleCorr /\ IdleDates /\ IdleKalshi
    /\ IdleDashboard
SpecComparison == InitSpecComparison /\ [][NextComparison]_vars

\* One run of the dashboard script's main.
InitSpecDashboard == InitDashboard /\ IdleDune /\ IdleCorr /\ IdleDates /\ IdleKalshi
    /\ IdleComparison
SpecDashboard == InitSpecDashboard /\ [][NextDashboard]_vars

(***************************************************************************)
(* Properties of execute_sql_query                                         *)
(***************************************************************************)

TerminalStates ==
    {"QUERY_STATE_COMPLETED", "QUERY_STATE_FAILED", "QUERY_STATE_CANCELLED"}

\* C1: whatever the status responses are, one call of execute_sql_query
\* issues at most 60 status requests and then returns.
C1_PollLoopTerminates ==
    /\ [](statusReqs <= 60)
    /\ <>(dpc = "done" /\ dret # NotReturned)

C1_Witness == dpc = "done" /\ statusReqs = 60 /\ dret = RetNone

\* C2: when the execute request answers with a status code other than 200,
\* execute_sql_query returns None and no status or results request is sent.
C2_ExecuteFailureShortCircuits ==
    (execPosts = 1 /\ execCode # 200) =>
        /\ dpc = "done"
        /\ dret = RetNone
        /\ statusReqs = 0
        /\ resultsReqs = 0

C2_Witness == dpc = "done" /\ execCode = 201 /\ dret = RetNone

\* C4: the results endpoint is requested only after a status poll observed
\* QUERY_STATE_COMPLETED, exactly once; its JSON body is the return value and
\* no status poll follows the one that observed the completion.
C4_ResultsOnlyAfterCompleted ==
    /\ [](/\ resultsReqs <= 1
          /\ resultsReqs = 1 =>
                /\ lastState = "QUERY_STATE_COMPLETED"
                /\ dpc = "done"
                /\ dret = RetJson(resultsBody)
          /\ (dpc = "done" /\ "QUERY_STATE_COMPLETED" \in seenStates) =>
                resultsReqs = 1)
    /\ [][/\ resultsReqs' # resultsReqs => lastState = "QUERY_STATE_COMPLETED"
          /\ "QUERY_STATE_COMPLETED" \in seenStates => statusReqs' = statusReqs]_vars

C4_Witness ==
    /\ dpc = "done"
    /\ resultsReqs = 1
    /\ statusReqs = 3
    /\ dret = RetJson([has_result |-> TRUE, rows |-> 2])

\* C5: a status poll that observes QUERY_STATE_FAILED or
\* QUERY_STATE_CANCELLED makes execute_sql_query return None at that poll:
\* no status request follows and the results endpoint is never requested.
C5_FailedOrCancelledReturnsNone ==
    /\ [](seenStates \cap {"QUERY_STATE_FAILED", "QUERY_STATE_CANCELLED"} # {} =>
            /\ dpc = "done"
            /\ dret = RetNone
            /\ resultsReqs = 0)
    /\ [][seenStates \cap {"QUERY_STATE_FAILED", "QUERY_STATE_CANCELLED"} # {} =>
            /\ statusReqs' = statusReqs
            /\ resultsReqs' = resultsReqs]_vars

C5_Witness ==
    /\ dpc = "done"
    /\ lastState = "QUERY_STATE_CANCELLED"
    /\ statusReqs = 2
    /\ dret = RetNone

\* C6: when no status poll observes a completed, failed or cancelled state,
\* execute_sql_query returns None as timed out after exactly 60 status
\* requests, without any results request.
C6_TimeoutAfterSixtyPolls ==
    (dpc = "done" /\ execCode = 200 /\ seenStates \cap TerminalStates = {}) =>
        /\ dret = RetNone
        /\ dprinted = "Query timed out"
        /\ statusReqs = 60
        /\ resultsReqs = 0

C6_Witness ==
    /\ dpc = "done"
    /\ dprinted = "Query timed out"
    /\ statusReqs = 60
    /\ seenStates \cap TerminalStates = {}

(***************************************************************************)
(* Properties of calculate_correlation                                     *)
(***************************************************************************)

\* Within two units in the last place of 1: 1 - 2^(2-MantissaBits) <= x and
\* x <= 1 + 2^(2-MantissaBits).
NearOne(x) ==
    LET tol == [m |-> Pow2(MantissaBits - 1), e |-> 3 - 2 * MantissaBits]
    IN  FLeq(FSub(One, tol), x) /\ FLeq(x, FAdd(One, tol))

IsConstant(xs) == \A j, k \in 1..Len(xs) : xs[j] = xs[k]

\* C10 as stated: the correlation of every series with itself equals 1.
C10_SelfCorrelationIsOne ==
    (cpc = "done" /\ prices = volumes) => correlation = One

\* C10, amended: the correlation of a series with itself is 1 up to the
\* rounding of the float operations when the series has at least two points
\* that are not all equal, 0 when it has fewer than two points, and 0 or 1
\* up to rounding when it is constant.
C10_SelfCorrelationNearOne ==
    (cpc = "done" /\ prices = volumes) =>
        /\ Len(prices) < 2 => correlation = Zero
        /\ (Len(prices) >= 2 /\ ~IsConstant(prices)) => NearOne(correlation)
        /\ (Len(prices) >= 2 /\ IsConstant(prices)) =>
              correlation = Zero \/ NearOne(correlation)

C10_Witness ==
    /\ cpc = "done"
    /\ prices = volumes
    /\ Len(prices) = 3
    /\ ~IsConstant(prices)
    /\ correlation # One
    /\ NearOne(correlation)

(***************************************************************************)
(* Properties of get_matching_dates                                        *)
(***************************************************************************)

\* C8: the common dates are exactly the dates that occur in both series,
\* each listed once, in ascending order.
C8_CommonDatesAreSortedIntersection ==
    mpc \in {"matched", "compared"} =>
        /\ {common_dates[k] : k \in 1..Len(common_dates)} =
              {d \in DateStrings :
                  /\ \E k \in 1..Len(kalshi_data) : kalshi_data[k].date = d
                  /\ \E k \in 1..Len(polymarket_data) : polymarket_data[k].date = d}
        /\ \A j, k \in 1..Len(common_dates) :
              j < k => StrLess(common_dates[j], common_dates[k])

C8_Witness ==
    /\ mpc = "matched"
    /\ Len(common_dates) = 2
    /\ StrLess(kalshi_data[2].date, kalshi_data[1].date)
    /\ Len(common_dates[1]) < Len(common_dates[2])

\* C9: swapping the two series, or rearranging the records within either of
\* them, yields the same list of common dates.
C9_CommonDatesSymmetric ==
    mpc = "compared" => common_dates_2 = common_dates

C9_Witness ==
    /\ mpc = "compared"
    /\ variant = "permuted"
    /\ Len(common_dates_2) = 2
    /\ common_dates_2 = common_dates
    /\ kalshi_data[1].date # kalshi_data[2].date

(***************************************************************************)
(* Properties of the Kalshi fetcher                                        *)
(***************************************************************************)

\* C3 as stated: when the candlesticks request answers with a status code
\* other than 200, fetch_candlesticks prints the error and returns None.
C3_HttpErrorReturnsNone ==
    (kpc = "store" /\ kcode # 200) =>
        /\ kprinted = kcode
        /\ candlesticks = NoneValue

\* C3, amended: when the candlesticks request answers with a status code
\* other than 200, fetch_candlesticks prints the error and returns the
\* empty list.
C3_HttpErrorReturnsEmptyList ==
    (kpc = "store" /\ kcode # 200) =>
        /\ kprinted = kcode
        /\ candlesticks = ListValue(<<>>)

C3_Witness ==
    /\ kpc = "store"
    /\ kcode = 404
    /\ kprinted = 404
    /\ candlesticks = ListValue(<<>>)

\* C7: no request is retried outside the status poll loop: a call of
\* execute_sql_query sends the execute POST exactly once, and the Kalshi main
\* sends exactly one candlesticks request per market, whatever the responses.
C7_NoRetries ==
    /\ execPosts <= 1
    /\ dpc \notin {"idle", "start"} => execPosts = 1
    /\ \A k \in 1..Len(MarketKeys) :
        /\ kreqs[k] <= 1
        /\ (kpc \in {"save", "done"} \/ (kpc # "idle" /\ k < kidx)) => kreqs[k] = 1

C7_Witness ==
    /\ kpc = "done"
    /\ kreqs = [k \in 1..Len(MarketKeys) |-> 1]
    /\ kcode = 500
    /\ DOMAIN output = {}

\* The dates of a list of daily records hold no date twice.
DatesUnique(data) ==
    \A j, k \in 1..Len(data) : data[j].date = data[k].date => j = k

\* C11: each daily_data series written to the cache file holds at most one
\* record per date.
C11_OneRecordPerDate ==
    kwrites > 0 => \A k \in DOMAIN kfile : DatesUnique(kfile[k].daily_data)

IsStableSortOf(daily_data, cs, p) ==
    /\ \A a, b \in 1..Len(cs) : p[a] = p[b] => a = b
    /\ \A k \in 1..Len(cs) : daily_data[k] = DailyRecord(cs[p[k]])
    /\ \A j, k \in 1..Len(cs) :
        j < k =>
            /\ ~StrLess(daily_data[k].date, daily_data[j].date)
            /\ daily_data[j].date = daily_data[k].date => p[j] < p[k]

\* C20: process_candlesticks returns one record per input candlestick, in
\* non-decreasing order of date, records of one date in their input order.
C20_ProcessIsStableSort ==
    (kpc \in {"fetch", "save"} /\ kidx > 1 /\ candlesticks.list # <<>>) =>
        LET cs == candlesticks.list
            daily_data == output[kidx - 1].daily_data
        IN  /\ Len(daily_data) = Len(cs)
            /\ \E p \in [1..Len(cs) -> 1..Len(cs)] :
                  IsStableSortOf(daily_data, cs, p)

C20_Witness ==
    /\ kpc = "save"
    /\ Len(candlesticks.list) = 2
    /\ candlesticks.list[1].end_period_ts > candlesticks.list[2].end_period_ts
    /\ output[2].daily_data[1].date = output[2].daily_data[2].date
    /\ output[2].daily_data[1].daily_volume = 7
    /\ output[2].daily_data[2].daily_volume = 0

\* C14: when DUNE_API_KEY is unset or empty, the Dune fetcher exits with
\* status 1 before any HTTP request is sent.
C14_MissingKeyExitsBeforeAnyRequest ==
    (DUNE_API_KEY = Unset \/ DUNE_API_KEY = "") =>
        /\ execPosts = 0 /\ statusReqs = 0 /\ resultsReqs = 0
        /\ dpc \in {"idle", "import", "exited"}
        /\ dpc = "exited" => exit_status = 1

C14_Witness ==
    /\ DUNE_API_KEY = ""
    /\ dpc = "exited"
    /\ exit_status = 1
    /\ execPosts = 0

(***************************************************************************)
(* Properties of the Pearson computations                                  *)
(***************************************************************************)

MinusOne == FromInt(-1)

\* Between -1 and 1, inclusive.
InUnitRange(x) == FLeq(MinusOne, x) /\ FLeq(x, One)

\* Between -1 and 1 up to two units in the last place of 1.
NearUnitRange(x) ==
    LET tol == [m |-> Pow2(MantissaBits - 1), e |-> 3 - 2 * MantissaBits]
    IN  FLeq(FSub(MinusOne, tol), x) /\ FLeq(x, FAdd(One, tol))

\* C17: calculate_correlation returns 0 whenever the series have fewer than
\* two points or either series has all values equal, and it never divides by
\* zero.
C17_ZeroForDegenerateSeries ==
    cpc = "done" =>
        /\ correlation # ZeroDivisionError
        /\ (Len(prices) < 2 \/ IsConstant(prices) \/ IsConstant(volumes)) =>
              correlation = Zero

\* C18: for equal-length non-empty series the inline computations of
\* create_price_volume_correlation_chart and of create_scatter_comparison
\* yield the value of calculate_correlation, zero variance included.
C18_InlineComputationsAgree ==
    (cpc = "scatter" /\ Len(prices) >= 1) =>
        /\ superbowl_corr = correlation
        /\ scatter_corr = correlation

\* C19 as stated: calculate_correlation(p, v) equals
\* calculate_correlation(v, p), and the result lies between -1 and 1.
C19_SymmetricAndBounded ==
    cpc = "swapped" =>
        /\ swapped_corr = correlation
        /\ InUnitRange(correlation)

\* C19, amended: calculate_correlation(p, v) equals
\* calculate_correlation(v, p), and the result lies between -1 and 1 up to
\* the rounding of the float operations.
C19_SymmetricAndNearlyBounded ==
    cpc = "swapped" =>
        /\ swapped_corr = correlation
        /\ NearUnitRange(correlation)

C19_Witness ==
    /\ cpc = "swapped"
    /\ prices # volumes
    /\ Len(prices) = 3
    /\ swapped_corr = correlation
    /\ ~InUnitRange(correlation)
    /\ NearUnitRange(correlation)

(***************************************************************************)
(* Properties of the comparison main                                       *)
(***************************************************************************)

\* C15: each of the three chart files is written if and only if its create
\* function returned a figure; a None returned for one chart writes no file
\* for it and leaves main at the next chart.
C15_FileWrittenIffFigure ==
    /\ \A c \in Charts : ChartFile(c) \in written <=> figs[c] = "Figure"
    /\ figs["presidential"] = "None" =>
          xpc = "scatter" \/ figs["scatter"] # NotCalled
    /\ figs["scatter"] = "None" =>
          xpc = "volume" \/ figs["volume"] # NotCalled
    /\ figs["volume"] = "None" => xpc = "done"

C15_Witness ==
    /\ xpc = "done"
    /\ written = {ChartFile(c) : c \in Charts}
    /\ \A c \in Charts : figs[c] = "Figure"

\* The Kalshi presidential series is not empty and shares no date with the
\* Polymarket series.
NoCommonDate ==
    /\ DailyData(kalshi) # <<>>
    /\ DateSet(DailyData(kalshi)) \cap DateSet(DailyData(polymarket)) = {}

Errors == {"ZeroDivisionError", "IndexError", "ValueError"}

\* C16: when the Kalshi presidential series is non-empty but shares no date
\* with the Polymarket series, each of the three create functions ends in an
\* error instead of returning None, and main ends at the first of them with
\* no chart written.
C16_NoCommonDateRaises ==
    (caches_exist /\ NoCommonDate) =>
        /\ create_presidential_comparison(kalshi, polymarket) \in Errors
        /\ create_scatter_comparison(kalshi, polymarket) \in Errors
        /\ create_volume_comparison(kalshi, polymarket) \in Errors
        /\ xpc \in {"load", "presidential", "raised"}
        /\ xpc = "raised" =>
              /\ figs["presidential"] = xerror
              /\ xerror \in Errors
              /\ figs["scatter"] = NotCalled
              /\ figs["volume"] = NotCalled
        /\ written = {}

C16_Witness ==
    /\ xpc = "raised"
    /\ xerror = "ZeroDivisionError"
    /\ kalshi.present /\ Len(kalshi.daily_data) = 2
    /\ ~polymarket.present
    /\ written = {}

(***************************************************************************)
(* Properties of the dashboard main                                        *)
(***************************************************************************)

\* C13: when the data file does not exist, load_data raises
\* FileNotFoundError; main reports it and ends without calling
\* create_dashboard: no image is written and load_data is not called again.
C13_MissingFileEndsWithoutDashboard ==
    (bpc # "idle" /\ ~data_file_exists) =>
        /\ bpc \in {"start", "done"}
        /\ bpc = "done" => breported = "FileNotFoundError" /\ load_calls = 1
        /\ dashboard_calls = 0
        /\ ~image_written
        /\ markets = <<>>

C13_Witness ==
    /\ bpc = "done"
    /\ ~data_file_exists
    /\ breported = "FileNotFoundError"
    /\ load_calls = 1
    /\ dashboard_calls = 0
    /\ ~image_written

(***************************************************************************)
(* Properties of the Kalshi main                                           *)
(***************************************************************************)

\* The sum of the daily volumes, added from the last record to the first.
RECURSIVE VolumeOfDays(_)
VolumeOfDays(daily_data) ==
    IF daily_data = <<>> THEN 0
    ELSE daily_data[1].daily_volume + VolumeOfDays(Tail(daily_data))

\* The markets whose iteration of the loop is over.
MarketsStored == {k \in DOMAIN kfetched : k < kidx}

\* C21: a market key is in the output if and only if its fetch returned a
\* non-empty candlestick list, and each entry's total_volume is the sum of
\* daily_volume over its daily_data and its days_of_data the length of its
\* daily_data.
C21_OutputKeysAndTotals ==
    /\ DOMAIN output \subseteq MarketsStored
    /\ \A k \in MarketsStored :
          k \in DOMAIN output <=>
              (~kfetched[k].ret.isNone /\ kfetched[k].ret.list # <<>>)
    /\ \A k \in DOMAIN output :
          /\ output[k].total_volume = VolumeOfDays(output[k].daily_data)
          /\ output[k].days_of_data = Len(output[k].daily_data)
          /\ Len(output[k].daily_data) = Len(kfetched[k].ret.list)

C21_Witness ==
    /\ kpc = "done"
    /\ DOMAIN output = {2}
    /\ kfetched[1].status_code = 200
    /\ kfetched[1].ret.list = <<>>
    /\ output[2].days_of_data = 2
    /\ output[2].total_volume = 7

\* C22: the cache file is written exactly once, after every market has been
\* attempted, also when every fetch failed; a failed fetch does not prevent
\* the fetch of the following market.
C22_CacheWrittenOnceAfterAllMarkets ==
    /\ kwrites <= 1
    /\ kpc = "done" => kwrites = 1
    /\ kwrites = 1 =>
          /\ \A k \in 1..Len(MarketKeys) : kreqs[k] = 1
          /\ DOMAIN kfetched = 1..Len(MarketKeys)
          /\ kpc = "done"
    /\ \A k \in DOMAIN kfetched :
          (kfetched[k].status_code # 200 /\ k < Len(MarketKeys) /\ k < kidx) =>
              kpc = "fetch" \/ kreqs[k + 1] = 1

C22_Witness ==
    /\ kpc = "done"
    /\ kwrites = 1
    /\ \A k \in 1..Len(MarketKeys) : kfetched[k].status_code # 200 /\ kreqs[k] = 1
    /\ DOMAIN kfile = {}

(***************************************************************************)
(* Properties of the poll loop of execute_sql_query                        *)
(***************************************************************************)

\* C23: a poll that observes a state other than QUERY_STATE_COMPLETED,
\* QUERY_STATE_FAILED or QUERY_STATE_CANCELLED, a response without a state
\* included, is followed by another poll until the limit of 60 polls, and
\* each status request, the first included, is preceded by one sleep of 2
\* seconds.
C23_PollingGoesOnUntilLimit ==
    /\ [](sleeps = statusReqs + (IF dpc = "status" THEN 1 ELSE 0))
    /\ [](slept = 2 * sleeps)
    /\ [][(dpc = "status" /\ lastState' \notin TerminalStates) =>
             /\ dpc' = "loop"
             /\ i' = statusReqs'
             /\ dret' = NotReturned]_vars
    /\ \A n \in 1..(PollLimit - 1) :
          (dpc = "loop" /\ statusReqs = n) ~> (statusReqs = n + 1)

C23_Witness ==
    /\ dpc = "status"
    /\ lastState = NoState
    /\ seenStates = {NoState}
    /\ statusReqs = 59
    /\ sleeps = 60
    /\ slept = 120

(***************************************************************************)
(* Properties of fetch_polymarket_daily_volume and the Dune main           *)
(***************************************************************************)

\* C24: fetch_polymarket_daily_volume writes the cache file if and only if
\* execute_sql_query returned a value with a "result" key; in every other
\* case it returns None and leaves the cache file as it was.
C24_CacheWrittenIffResult ==
    /\ cache_writes <= 1
    /\ dpc \notin {"fetched", "reported"} =>
          cache_writes = 0 /\ cache_rows = NoRows /\ fret = NotFetched
    /\ dpc \in {"fetched", "reported"} =>
          /\ cache_writes = 1 <=> (~dret.isNone /\ dret.body.has_result)
          /\ cache_writes = 1 =>
                cache_rows = dret.body.rows /\ fret = FetchRows(dret.body.rows)
          /\ cache_writes = 0 => cache_rows = NoRows /\ fret = FetchNone

C24_Witness ==
    /\ dpc = "fetched"
    /\ cache_writes = 1
    /\ cache_rows = 0
    /\ fret = FetchRows(0)
    /\ dret.body.has_result

\* C25: the Dune main reports success if and only if the cache file was
\* written in that run.
C25_SuccessIffCacheWritten ==
    dpc = "reported" =>
        (dreport = "Successfully fetched" <=> cache_writes = 1)

(***************************************************************************)
(* Properties of get_markets and parse_prices                              *)
(***************************************************************************)

\* The entry is None, or a MarketData of the given name and platform.
IsEntryOf(m, name, platform) ==
    m = NoMarket \/ (m.name = name /\ m.platform = platform)

\* C26: get_markets returns exactly four entries in the order Polymarket
\* presidential, Kalshi presidential, Polymarket NYC mayor, Kalshi NYC mayor,
\* each a MarketData or None; the third is a MarketData only when the status
\* of its section is NOT_FOUND, and the third and fourth have no prices.
C26_FourMarketsInFixedOrder ==
    (bpc \in {"dashboard", "done"} /\ data_file_exists) =>
        /\ Len(markets) = 4
        /\ IsEntryOf(markets[1], "2024 Presidential Election", "Polymarket")
        /\ IsEntryOf(markets[2], "2024 Presidential Election", "Kalshi")
        /\ IsEntryOf(markets[3], "2025 NYC Mayor Election", "Polymarket")
        /\ IsEntryOf(markets[4], "2025 NYC Mayor Election", "Kalshi")
        /\ markets[3] # NoMarket => data_file.nyc_pm = "NOT_FOUND"
        /\ markets[3].prices = <<>>
        /\ markets[4].prices = <<>>

C26_Witness ==
    /\ bpc = "dashboard"
    /\ markets[1] # NoMarket /\ Len(markets[1].prices) = 2
    /\ markets[2] # NoMarket
    /\ markets[3] = NoMarket /\ data_file.nyc_pm = "ACTIVE"
    /\ markets[4] # NoMarket

\* The records of the Polymarket presidential section, and the price points
\* built from them once get_markets has returned.
PresidentialRecords == data_file.pres_pm.daily_prices
PresidentialPoints == markets[1].prices

\* The points are in non-decreasing order of timestamp.
InTimestampOrder(points) ==
    \A j \in 1..(Len(points) - 1) : points[j].timestamp <= points[j + 1].timestamp

\* The points are those of the records in kept, one for one.
PointsOfRecords(points, records, kept) ==
    \E f \in [1..Len(points) -> kept] :
        /\ \A a, b \in 1..Len(points) : f[a] = f[b] => a = b
        /\ \A k \in kept : \E a \in 1..Len(points) : f[a] = k
        /\ \A a \in 1..Len(points) : points[a].timestamp = ParseDate(records[f[a]].date).ts

\* C27 as stated: the output of parse_prices has one PricePoint per record
\* whose date can be parsed, in non-decreasing order of timestamp.
C27_OnePointPerParseableDate ==
    (bpc \in {"dashboard", "done"} /\ PresidentialRecords # <<>>) =>
        /\ InTimestampOrder(PresidentialPoints)
        /\ PointsOfRecords(PresidentialPoints, PresidentialRecords,
                           {k \in 1..Len(PresidentialRecords) :
                               ParseDate(PresidentialRecords[k].date).ok})

\* C27, amended: the output has one PricePoint per record whose date can be
\* parsed and whose price float() accepts, in non-decreasing order of
\* timestamp; a record that is skipped does not end the parsing.
C27_OnePointPerConvertibleRecord ==
    (bpc \in {"dashboard", "done"} /\ PresidentialRecords # <<>>) =>
        /\ InTimestampOrder(PresidentialPoints)
        /\ PointsOfRecords(PresidentialPoints, PresidentialRecords,
                           {k \in 1..Len(PresidentialRecords) :
                               /\ ParseDate(PresidentialRecords[k].date).ok
                               /\ PresidentialRecords[k].price # BadPrice})

C27_Witness ==
    /\ bpc = "dashboard"
    /\ Len(PresidentialRecords) = 2
    /\ ~ParseDate(PresidentialRecords[1].date).ok
    /\ ParseDate(PresidentialRecords[2].date).ok
    /\ PresidentialRecords[2].price # BadPrice
    /\ Len(PresidentialPoints) = 1
    /\ PresidentialPoints[1].timestamp = ParseDate(PresidentialRecords[2].date).ts

====
